---- MODULE Spec2Model ----
(***************************************************************************)
(* Model of sketch_pl.ino: the soil-moisture irrigation controller.        *)
(*                                                                         *)
(* One step of the model is one execution of loop(): the two buttons are   *)
(* polled, the millisecond clock is read, and, when intervalSense ms have  *)
(* passed since the previous sample, the sensor is read and the dry-time / *)
(* dose-time state machine advances; the display lines are rewritten at    *)
(* the end of every iteration.                                             *)
(*                                                                         *)
(* Floats: soilMoisturePercent is kept exactly, as the rational            *)
(* percent * (AirValue - WaterValue); thresholdAddWater only ever holds    *)
(* whole numbers (37 plus or minus presses).  The sensor values used are   *)
(* away from the ties percent = threshold, so float rounding does not      *)
(* change any comparison.                                                  *)
(***************************************************************************)
EXTENDS Integers, Sequences, FiniteSets, TLC

(* ------------------------------------------------------------------ *)
(* Program constants                                                   *)
(* ------------------------------------------------------------------ *)
AirValue == 620
WaterValue == 35
InitialThreshold == 37
dryTime == 180000
addWater == 20000
intervalSense == 1000
HIGH == 1
LOW == 0

(* ------------------------------------------------------------------ *)
(* Bounds of the model                                                 *)
(* ------------------------------------------------------------------ *)
\* the threshold is explored within InitialThreshold +/- ThresholdSpan
ThresholdSpan == 1
\* width of the modelled millis() counter (the board's is 32 bits wide)
ClockBits == 11

\* consecutive wet samples from the idle state that are counted
IdleCap == 3

ClockMod == 2 ^ ClockBits

\* time that can pass between two executions of loop(): none that millis()
\* can see, or half the range of the modelled clock
Elapsed == {0, ClockMod \div 2}

\* the same, for the specification that watches the clock: a quarter or half
\* the range of the modelled clock.  Both are below ClockMod - intervalSense.
FineElapsed == {ClockMod \div 4, ClockMod \div 2}

\* analogRead(A0) results fed to the model:
\*   398 -> 37.95 %,  404 -> 36.92 %,  444 -> 30.09 %
RawValues == {398, 404, 444}

\* what the 10-bit converter behind analogRead can return
AdcRange == 0..(2 ^ 10 - 1)

\* readings fed to the specification that watches the conversion: the ends
\* of the converter's range, the two calibration points and their
\* neighbours, and the middle of the calibrated range
CalRaws == {0, WaterValue - 1, WaterValue, WaterValue + 1, 327, 328,
            AirValue - 1, AirValue, AirValue + 1, 2 ^ 10 - 1}

\* the constant dry reading of the end-to-end scenario: the driest of the
\* readings (about 30 %)
HeldRaw == CHOOSE r \in RawValues : \A q \in RawValues : r >= q

DryTicks == dryTime \div intervalSense
DoseTicks == addWater \div intervalSense

\* the end-to-end scenario is followed through two dry waits and two doses
HeldCap == 2 * (DryTicks + DoseTicks)

Min(a, b) == IF a < b THEN a ELSE b

(* ------------------------------------------------------------------ *)
(* unsigned long (32 bits).  TLC's integers are 32 bits wide and       *)
(* signed, so an unsigned long is kept as the signed integer with the  *)
(* same 32 bits: a negative number n stands for 2^32 + n.  Sums and    *)
(* differences then need no reduction (TLC stops with an overflow      *)
(* error if a result leaves 32 bits); only division must look at the   *)
(* sign.  2^32 = 4294967 * 1000 + 296.                                 *)
(* ------------------------------------------------------------------ *)
ULongAdd(a, b) == a + b
ULongSub(a, b) == a - b
ULongGeq(a, b) == IF (a < 0) = (b < 0) THEN a >= b ELSE a < 0
ULongDiv1000(a) == IF a >= 0 THEN a \div 1000 ELSE 4294967 + ((a + 296) \div 1000)

VARIABLES
    thresholdAddWater,    \* float thresholdAddWater (whole-valued)
    clock,                \* the hardware millisecond counter behind millis()
    previousMillisSense,
    soilMoistureValue,
    soilMoisturePercent,  \* scaled by PercentScale
    dryTimeSum,
    addWaterSum,
    timeAddH20,
    relay,                \* level of RELAY_PIN
    lcd_line1,
    lcd_line2,
    diff,
    \* history variables (not program state)
    lastTick,             \* "none" | "dry" | "wet": comparison of the latest sample
    relayCmd,             \* level written by the latest sample, -1 if it wrote none
    dryRun,               \* consecutive dry samples up to now, capped at DryTicks
                          \* (recorded under SpecRun only)
    onRun,                \* consecutive samples that wrote HIGH, up to now
    coldRun,              \* consecutive dry samples since counters 0 and pump off
    sinceDose,            \* dry samples since the sample that ended a full dose
    idleRun,              \* consecutive wet samples since counters 0 and pump off
    relayBefore,          \* level of RELAY_PIN before the latest sample
    heldTicks,            \* samples since power-up in the end-to-end scenario
    netPresses,           \* button1 press edges minus button2 press edges so far
    relayWrites,          \* number of digitalWrite calls of the latest sample
    lineBefore,           \* lcd_line2 before the latest sample
    \* recorded under SpecClock only
    advanced,             \* the latest execution of loop() took a sample
    sinceSample           \* ms from the previous sample (or power-up) to the
                          \* latest execution of loop()

progVars == <<thresholdAddWater, clock, previousMillisSense, soilMoistureValue,
              soilMoisturePercent, dryTimeSum, addWaterSum, timeAddH20, relay,
              lcd_line1, lcd_line2, diff>>
histVars == <<lastTick, relayCmd, dryRun, onRun, coldRun, sinceDose, idleRun,
              relayBefore, heldTicks, netPresses, relayWrites,
              lineBefore, advanced, sinceSample>>
vars == <<progVars, histVars>>

(* ------------------------------------------------------------------ *)
(* Sensor conversion (line 136)                                        *)
(* ------------------------------------------------------------------ *)
PercentScale == AirValue - WaterValue

\* the conversion with its result constrained to 0..100
MoisturePercentClamped(raw) ==
    LET pct == 100 * PercentScale - (raw - WaterValue) * 100
    IN  IF pct < 0 THEN 0 ELSE IF pct > 100 * PercentScale THEN 100 * PercentScale ELSE pct

\* 100 - (raw - WaterValue) / (AirValue - WaterValue) * 100, times PercentScale
MoisturePercent(raw) == 100 * PercentScale - (raw - WaterValue) * 100

\* soilMoisturePercent < thresholdAddWater
IsDry(pct, thr) == pct < thr * PercentScale

(* ------------------------------------------------------------------ *)
(* The state machine of one sample (lines 141-169), on the record      *)
(* s = [dryTimeSum, addWaterSum, timeAddH20, relay, lcd_line2] with   *)
(* relayCmd and relayWrites, the record of the digitalWrite calls.     *)
(* ------------------------------------------------------------------ *)
DigitalWrite(s, level) ==
    [s EXCEPT !.relay = level, !.relayCmd = level, !.relayWrites = @ + 1]

\* Dose written without its status line
DoseNoStatus(s) ==
    DigitalWrite([s EXCEPT !.addWaterSum = ULongAdd(s.addWaterSum, intervalSense)],
                 HIGH)

\* lines 147-151
Dose(s) ==
    [DigitalWrite([s EXCEPT !.addWaterSum = ULongAdd(s.addWaterSum, intervalSense)],
                  HIGH)
       EXCEPT !.lcd_line2 = <<"Add H20 for", addWater \div 1000>>]

\* Soak written without "dryTimeSum = 0"
SoakKeepsDry(s) ==
    DigitalWrite([s EXCEPT !.addWaterSum = 0], LOW)

\* Soak written without "addWaterSum = 0"
SoakKeepsDose(s) ==
    DigitalWrite([s EXCEPT !.dryTimeSum = 0], LOW)

\* Soak written without its digitalWrite
SoakNoWrite(s) ==
    [s EXCEPT !.addWaterSum = 0, !.dryTimeSum = 0]

\* lines 153-158
Soak(s) ==
    DigitalWrite([s EXCEPT !.addWaterSum = 0, !.dryTimeSum = 0], LOW)

\* lines 160-163
Confirm(s) ==
    LET t == ULongSub(dryTime, s.dryTimeSum)
    IN  [s EXCEPT !.timeAddH20 = t, !.lcd_line2 = <<"H20 add in", ULongDiv1000(t)>>]

\* Happy written without its digitalWrite
HappyNoWrite(s) ==
    [s EXCEPT !.lcd_line2 = <<"Lea is Happy", 0>>]

\* Happy writing the wrong level
HappyHigh(s) ==
    [DigitalWrite(s, HIGH) EXCEPT !.lcd_line2 = <<"Lea is Happy", 0>>]

\* lines 165-169
Happy(s) ==
    [DigitalWrite(s, LOW) EXCEPT !.lcd_line2 = <<"Lea is Happy", 0>>]

\* line 145 written with > for >=
DryLongEnoughGt(s) == s.dryTimeSum # dryTime /\ ULongGeq(s.dryTimeSum, dryTime)

\* line 145
DryLongEnough(s) == ULongGeq(s.dryTimeSum, dryTime)

\* line 146 written with <= for <
DoseUnfinishedLeq(s) == ULongGeq(addWater, s.addWaterSum)

\* line 146
DoseUnfinished(s) == ~ULongGeq(s.addWaterSum, addWater)

\* lines 141-164
Thirsty(s) ==
    LET s1 == [s EXCEPT !.dryTimeSum = ULongAdd(s.dryTimeSum, intervalSense)]
    IN  IF DryLongEnough(s1)
        THEN IF DoseUnfinished(s1) THEN Dose(s1) ELSE Soak(s1)
        ELSE Confirm(s1)

\* lines 141-169
Sample(s, pct, thr) == IF IsDry(pct, thr) THEN Thirsty(s) ELSE Happy(s)

(* ------------------------------------------------------------------ *)
(* Buttons (lines 113-124)                                             *)
(* ------------------------------------------------------------------ *)
\* button1 with the threshold clamped at its initial value
Button1Clamped(thr, pressed) ==
    IF pressed /\ thr < InitialThreshold THEN thr + 1 ELSE thr

\* lines 117-120
Button1(thr, pressed) == IF pressed THEN thr + 1 ELSE thr

\* lines 121-124
Button2(thr, pressed) == IF pressed THEN thr - 1 ELSE thr

\* press edges the model explores: the threshold stays within the span
Presses(thr) ==
    {p \in BOOLEAN \X BOOLEAN :
        LET t == Button2(Button1(thr, p[1]), p[2])
        IN  /\ t >= InitialThreshold - ThresholdSpan
            /\ t <= InitialThreshold + ThresholdSpan
            /\ Button1(thr, p[1]) <= InitialThreshold + ThresholdSpan}

(* ------------------------------------------------------------------ *)
(* Sampling gate (lines 128-129)                                       *)
(* ------------------------------------------------------------------ *)
Millis(dt) == (clock + dt) % ClockMod

\* the gate written without the unsigned subtraction
DueNoWrap(currentMillis) ==
    currentMillis >= previousMillisSense + intervalSense

\* the gate left out
DueAlways(currentMillis) == TRUE

\* line 129
Due(currentMillis) ==
    (currentMillis - previousMillisSense) % ClockMod >= intervalSense

(* ------------------------------------------------------------------ *)
(* Display (lines 174-185)                                             *)
(* ------------------------------------------------------------------ *)
Diff(pct, thr) == IF IsDry(pct, thr) THEN "<" ELSE ">="

Display(pct, thr) ==
    /\ diff' = Diff(pct, thr)
    /\ lcd_line1' = <<"M:", pct, Diff(pct, thr), thr>>

(* ------------------------------------------------------------------ *)
(* History of the samples                                              *)
(* ------------------------------------------------------------------ *)
Cold == dryTimeSum = 0 /\ addWaterSum = 0 /\ relay = LOW

\* the press edges p counted: +1 for button1, -1 for button2
Count(p) ==
    netPresses' = netPresses + (IF p[1] THEN 1 ELSE 0) - (IF p[2] THEN 1 ELSE 0)

Record(dry, cmd, pressed, raw) ==
    /\ lastTick' = IF dry THEN "dry" ELSE "wet"
    /\ relayCmd' = cmd
    /\ onRun' = IF cmd = HIGH THEN Min(onRun + 1, DoseTicks + 1) ELSE 0
    /\ coldRun' = IF ~dry THEN 0
                  ELSE IF coldRun \in 1..(DryTicks + DoseTicks - 1) THEN coldRun + 1
                  ELSE IF Cold THEN 1 ELSE 0
    /\ sinceDose' = IF dry /\ onRun = DoseTicks THEN 0
                    ELSE IF dry /\ sinceDose \in 0..(DryTicks - 2) THEN sinceDose + 1
                    ELSE IF dry THEN -1
                    ELSE sinceDose
    /\ idleRun' = IF dry THEN 0
                  ELSE IF idleRun > 0 THEN Min(idleRun + 1, IdleCap)
                  ELSE IF Cold THEN 1 ELSE 0
    /\ relayBefore' = relay
    /\ heldTicks' = IF /\ heldTicks \in 0..(HeldCap - 1)
                       /\ ~pressed
                       /\ raw = HeldRaw
                    THEN heldTicks + 1 ELSE -1

(* ------------------------------------------------------------------ *)
(* loop()                                                              *)
(* ------------------------------------------------------------------ *)
Init ==
    /\ thresholdAddWater = InitialThreshold
    /\ clock = 0
    /\ previousMillisSense = 0
    /\ soilMoistureValue = 0
    /\ soilMoisturePercent = 0
    /\ dryTimeSum = 0
    /\ addWaterSum = 0
    /\ timeAddH20 = 0
    /\ relay = LOW
    /\ lcd_line1 = <<"Hello Lea", 0, "", 0>>
    /\ lcd_line2 = <<"1st measurement", 0>>
    /\ diff = ""
    /\ lastTick = "none"
    /\ relayCmd = -1
    /\ dryRun = 0
    /\ onRun = 0
    /\ coldRun = 0
    /\ sinceDose = -1
    /\ idleRun = 0
    /\ relayBefore = LOW
    /\ heldTicks = 0
    /\ netPresses = 0
    /\ relayWrites = 0
    /\ lineBefore = <<"1st measurement", 0>>
    /\ advanced = FALSE
    /\ sinceSample = 0

\* an execution of loop() in which the sample is due: p = the press edges
\* of the two buttons, dt = the time since the previous execution, raw = the
\* value analogRead returns
Sense(p, dt, raw) ==
    LET thr == Button2(Button1(thresholdAddWater, p[1]), p[2])
        currentMillis == Millis(dt)
        pct == MoisturePercent(raw)
        s == [dryTimeSum |-> dryTimeSum, addWaterSum |-> addWaterSum,
              timeAddH20 |-> timeAddH20, relay |-> relay, relayCmd |-> -1,
              relayWrites |-> 0, lcd_line2 |-> lcd_line2]
        t == Sample(s, pct, thr)
    IN  /\ Due(currentMillis)
        /\ thresholdAddWater' = thr
        /\ clock' = currentMillis
        /\ previousMillisSense' = currentMillis
        /\ soilMoistureValue' = raw
        /\ soilMoisturePercent' = pct
        /\ dryTimeSum' = t.dryTimeSum
        /\ addWaterSum' = t.addWaterSum
        /\ timeAddH20' = t.timeAddH20
        /\ relay' = t.relay
        /\ lcd_line2' = t.lcd_line2
        /\ Display(pct, thr)
        /\ Record(IsDry(pct, thr), t.relayCmd, p[1] \/ p[2], raw)
        /\ relayWrites' = t.relayWrites
        /\ lineBefore' = lcd_line2
        /\ Count(p)

\* Idle with a press that also restarts the dry wait
IdlePressResets(p, dt) ==
    LET thr == Button2(Button1(thresholdAddWater, p[1]), p[2])
        currentMillis == Millis(dt)
    IN  /\ ~Due(currentMillis)
        /\ thresholdAddWater' = thr
        /\ clock' = currentMillis
        /\ Display(soilMoisturePercent, thr)
        /\ heldTicks' = IF p[1] \/ p[2] THEN -1 ELSE heldTicks
        /\ Count(p)
        /\ dryTimeSum' = IF p[1] \/ p[2] THEN 0 ELSE dryTimeSum
        /\ UNCHANGED <<previousMillisSense, soilMoistureValue, soilMoisturePercent,
                       addWaterSum, timeAddH20, relay, lcd_line2>>
        /\ UNCHANGED <<lastTick, relayCmd, onRun, coldRun, sinceDose, idleRun, relayBefore,
                       relayWrites, lineBefore>>

\* an execution of loop() in which the sample is not yet due
Idle(p, dt) ==
    LET thr == Button2(Button1(thresholdAddWater, p[1]), p[2])
        currentMillis == Millis(dt)
    IN  /\ ~Due(currentMillis)
        /\ thresholdAddWater' = thr
        /\ clock' = currentMillis
        /\ Display(soilMoisturePercent, thr)
        /\ heldTicks' = IF p[1] \/ p[2] THEN -1 ELSE heldTicks
        /\ Count(p)
        /\ UNCHANGED <<previousMillisSense, soilMoistureValue, soilMoisturePercent,
                       dryTimeSum, addWaterSum, timeAddH20, relay, lcd_line2>>
        /\ UNCHANGED <<lastTick, relayCmd, onRun, coldRun, sinceDose, idleRun, relayBefore,
                       relayWrites, lineBefore>>

\* The controller with its operator: any press edges, any reading.
LoopSense ==
    \E p \in Presses(thresholdAddWater), dt \in Elapsed, raw \in RawValues :
        Sense(p, dt, raw) /\ UNCHANGED <<dryRun, advanced, sinceSample>>

LoopIdle ==
    \E p \in Presses(thresholdAddWater), dt \in Elapsed :
        Idle(p, dt) /\ UNCHANGED <<dryRun, advanced, sinceSample>>

Next == LoopSense \/ LoopIdle

Spec == Init /\ [][Next]_vars

\* The controller with the buttons left alone, the length of the current run
\* of dry samples recorded in dryRun.
NoPress == <<FALSE, FALSE>>

WatchSense ==
    \E dt \in Elapsed, raw \in RawValues :
        /\ Sense(NoPress, dt, raw)
        /\ dryRun' = IF IsDry(MoisturePercent(raw), thresholdAddWater)
                     THEN Min(dryRun + 1, DryTicks) ELSE 0
        /\ UNCHANGED <<advanced, sinceSample>>

WatchIdle ==
    \E dt \in Elapsed : Idle(NoPress, dt) /\ UNCHANGED <<dryRun, advanced, sinceSample>>

WatchNext == WatchSense \/ WatchIdle

SpecRun == Init /\ [][WatchNext]_vars

\* The controller with its operator and a finer clock, the time since the
\* previous sample recorded in sinceSample.
Timed(dt, sampled) ==
    /\ advanced' = sampled
    /\ sinceSample' = Min((IF advanced THEN 0 ELSE sinceSample) + dt, 2 * ClockMod)

ClockSense ==
    \E p \in Presses(thresholdAddWater), dt \in FineElapsed, raw \in RawValues :
        Sense(p, dt, raw) /\ Timed(dt, TRUE) /\ UNCHANGED dryRun

ClockIdle ==
    \E p \in Presses(thresholdAddWater), dt \in FineElapsed :
        Idle(p, dt) /\ Timed(dt, FALSE) /\ UNCHANGED dryRun

ClockNext == ClockSense \/ ClockIdle

SpecClock == Init /\ [][ClockNext]_vars

\* The controller fed the readings CalRaws, the buttons left alone.
CalSense ==
    \E dt \in Elapsed, raw \in CalRaws :
        Sense(NoPress, dt, raw) /\ UNCHANGED <<dryRun, advanced, sinceSample>>

CalIdle ==
    \E dt \in Elapsed :
        Idle(NoPress, dt) /\ UNCHANGED <<dryRun, advanced, sinceSample>>

CalNext == CalSense \/ CalIdle

SpecCal == Init /\ [][CalNext]_vars

\* loop() is called again and again and the clock advances, so a sample
\* that is due is eventually taken
LiveSpec == Spec /\ WF_vars(LoopSense)

(* ------------------------------------------------------------------ *)
(* Claims                                                              *)
(* ------------------------------------------------------------------ *)

\* C1 (as claimed): whenever a sample commands the pump on, that sample and
\* the samples before it covering a full dryTime (DryTicks samples in all)
\* were all below the threshold.
C1_DryConfirmed == relayCmd = HIGH => dryRun >= DryTicks

\* C2: the pump is never commanded on for more than DoseTicks consecutive
\* samples, and the relay is on only right after a sample that commanded it
\* on: the sample that ends a run of on-samples writes the relay off.
C2_BoundedPulse ==
    /\ onRun <= DoseTicks
    /\ relay = HIGH => relayCmd = HIGH

C2_Witness == onRun = DoseTicks /\ relay = HIGH

\* C3: from counters 0 and pump off, the pump is off after each of the first
\* DryTicks - 1 consecutive dry samples and is commanded on by the
\* DryTicks-th.
C3_ColdStartDelay ==
    /\ coldRun \in 1..(DryTicks - 1) => relay = LOW
    /\ coldRun = DryTicks => relay = HIGH /\ relayCmd = HIGH

C3_Witness == coldRun = DryTicks /\ relayCmd = HIGH /\ dryTimeSum = dryTime

\* C4: the dry sample that follows DoseTicks consecutive on-samples commands
\* the pump off and zeroes both counters, and the pump stays off until
\* DryTicks further dry samples have been taken.
C4_DoseCeiling ==
    /\ sinceDose = 0 =>
          relayCmd = LOW /\ relay = LOW /\ dryTimeSum = 0 /\ addWaterSum = 0
    /\ sinceDose \in 0..(DryTicks - 1) => relay = LOW

C4_Witness == sinceDose = DryTicks - 1 /\ lastTick = "dry" /\ relay = LOW

\* C5 (as claimed): after every sample whose reading is >= threshold both
\* counters are 0.
C5_WetResets == lastTick = "wet" => dryTimeSum = 0 /\ addWaterSum = 0

\* C6: after every sample whose reading is >= threshold the pump relay is
\* off, whatever it was before.
C6_WetPumpOff == lastTick = "wet" => relay = LOW

C6_Witness == lastTick = "wet" /\ relayBefore = HIGH /\ relay = LOW

\* C7 (as claimed): with the threshold at 37 and the reading held dry from
\* power-up, the pump is off after samples 1-180, on after samples 181-200,
\* and off with both counters 0 after sample 201.
C7_ScheduleAsClaimed ==
    /\ heldTicks \in 1..DryTicks => relay = LOW
    /\ heldTicks \in (DryTicks + 1)..(DryTicks + DoseTicks) => relay = HIGH
    /\ heldTicks = DryTicks + DoseTicks + 1 =>
          relay = LOW /\ dryTimeSum = 0 /\ addWaterSum = 0

\* C7 (amended): the pump is off after samples 1-179, on after samples
\* 180-199, off with both counters 0 after sample 200, and sample 201 starts
\* the count again.
C7_Schedule ==
    /\ heldTicks \in 1..(DryTicks - 1) => relay = LOW
    /\ heldTicks \in DryTicks..(DryTicks + DoseTicks - 1) => relay = HIGH
    /\ heldTicks = DryTicks + DoseTicks =>
          relay = LOW /\ dryTimeSum = 0 /\ addWaterSum = 0
    /\ heldTicks = DryTicks + DoseTicks + 1 =>
          relay = LOW /\ dryTimeSum = intervalSense /\ addWaterSum = 0

C7_Witness == heldTicks = DryTicks + DoseTicks + 1 /\ thresholdAddWater = InitialThreshold

\* C8: if from some point on every sample is dry, the pump is on infinitely
\* often and off infinitely often.
C8_Sips ==
    <>[](lastTick = "dry") => ([]<>(relay = HIGH) /\ []<>(relay = LOW))

\* the second pulse of a reading held dry from power-up begins
C8_Witness == heldTicks = 2 * DryTicks + DoseTicks /\ relay = HIGH

\* C9 (as claimed): dryTimeSum is in [0, dryTime + intervalSense] and
\* addWaterSum in [0, addWater + intervalSense].
C9_BoundsAsClaimed ==
    /\ dryTimeSum >= 0 /\ dryTimeSum <= dryTime + intervalSense
    /\ addWaterSum >= 0 /\ addWaterSum <= addWater + intervalSense

\* C9 (amended): dryTimeSum is in [0, dryTime + addWater - intervalSense] and
\* addWaterSum in [0, addWater + intervalSense].
C9_Bounds ==
    /\ dryTimeSum >= 0 /\ dryTimeSum <= dryTime + addWater - intervalSense
    /\ addWaterSum >= 0 /\ addWaterSum <= addWater + intervalSense

C9_Witness == dryTimeSum = dryTime + addWater - intervalSense /\ addWaterSum = addWater

\* C10: from counters 0 and pump off, any number of samples with a reading
\* >= threshold leaves both counters 0 and the pump off.
C10_IdleIdempotent == idleRun > 0 => Cold

C10_Witness == idleRun = IdleCap /\ Cold

\* C11: the threshold equals its initial value plus the number of button1
\* press edges minus the number of button2 press edges, however the presses
\* and the samples interleave.
C11_ThresholdCounts == thresholdAddWater = InitialThreshold + netPresses

\* one press of button1 more than of button2, samples taken in between
C11_Witness ==
    /\ netPresses = 1
    /\ thresholdAddWater = InitialThreshold + 1
    /\ lastTick # "none"
    /\ dryTimeSum > 0

\* C16: if the pump relay is on then dryTimeSum >= dryTime and
\* 0 < addWaterSum <= addWater; so the relay is off whenever
\* dryTimeSum < dryTime.
C16_PumpOnImpliesDosing ==
    relay = HIGH =>
        /\ ULongGeq(dryTimeSum, dryTime)
        /\ addWaterSum > 0
        /\ addWaterSum <= addWater

C16_Witness == relay = HIGH /\ addWaterSum = addWater /\ relayBefore = HIGH

\* C18: the remaining time dryTime - dryTimeSum is computed only with
\* dryTimeSum < dryTime: it never wraps, the status line reports a whole
\* number of seconds in 1..DryTicks - 1, and it is dryTime minus the dry time
\* accumulated, so each confirming sample lowers it by intervalSense.
C18_RemainingTime ==
    /\ timeAddH20 >= 0
    /\ lcd_line2[1] = "H20 add in" =>
          /\ timeAddH20 = dryTime - dryTimeSum
          /\ timeAddH20 > 0
          /\ lcd_line2[2] * 1000 = timeAddH20
          /\ lcd_line2[2] \in 1..(DryTicks - 1)

C18_Witness == lcd_line2 = <<"H20 add in", 1>> /\ dryTimeSum = dryTime - intervalSense

\* C14 (as claimed): every sample, whichever branch it takes, writes the
\* relay exactly once.
C14_WrittenEveryTick == lastTick # "none" => relayWrites = 1

\* C14 (amended): the satisfied, dosing and soak-reset samples write the
\* relay exactly once (LOW, HIGH, LOW); the confirming-dry sample writes
\* nothing, and the relay, which it leaves as it was, is off.
C14_WrittenButConfirming ==
    /\ lastTick = "wet" => relayWrites = 1 /\ relayCmd = LOW
    /\ lastTick = "dry" /\ ULongGeq(dryTimeSum, dryTime) =>
          relayWrites = 1 /\ relayCmd = HIGH
    /\ lastTick = "dry" /\ dryTimeSum = 0 => relayWrites = 1 /\ relayCmd = LOW
    /\ lastTick = "dry" /\ dryTimeSum > 0 /\ ~ULongGeq(dryTimeSum, dryTime) =>
          relayWrites = 0 /\ relay = relayBefore /\ relay = LOW

\* a confirming sample taken after an earlier dose
C14_Witness ==
    /\ lastTick = "dry"
    /\ dryTimeSum = intervalSense
    /\ relayWrites = 0
    /\ sinceDose = 1

\* C15 (as claimed): the dosing message is shown only while the relay is
\* commanded on, and the satisfied message exactly when the latest sample was
\* >= threshold.
C15_StatusAsClaimed ==
    /\ lcd_line2[1] = "Add H20 for" => relay = HIGH
    /\ lastTick # "none" => (lcd_line2[1] = "Lea is Happy" <=> lastTick = "wet")

\* C15 (amended): the satisfied, confirming and dosing samples set the status
\* line to their own message (the dosing one with the relay commanded on);
\* the soak-reset sample leaves the status line as it was.
C15_StatusButSoak ==
    /\ lastTick = "wet" => lcd_line2 = <<"Lea is Happy", 0>>
    /\ lastTick = "dry" /\ ULongGeq(dryTimeSum, dryTime) =>
          lcd_line2 = <<"Add H20 for", addWater \div 1000>> /\ relay = HIGH
    /\ lastTick = "dry" /\ dryTimeSum > 0 /\ ~ULongGeq(dryTimeSum, dryTime) =>
          lcd_line2 = <<"H20 add in", (dryTime - dryTimeSum) \div 1000>>
    /\ lastTick = "dry" /\ dryTimeSum = 0 =>
          lcd_line2 = lineBefore /\ relay = LOW

\* the soak-reset sample: the dosing message stays, the pump is off
C15_Witness ==
    /\ lastTick = "dry"
    /\ dryTimeSum = 0
    /\ lcd_line2[1] = "Add H20 for"
    /\ relay = LOW

\* C12: the state machine advances only in an execution of loop() that
\* finds at least intervalSense ms elapsed since the previous advance; an
\* execution that finds less leaves both counters, the relay command and the
\* status line as they were.
C12_TimeGated ==
    /\ [](advanced => sinceSample >= intervalSense)
    /\ [][sinceSample' < intervalSense =>
              UNCHANGED <<dryTimeSum, addWaterSum, timeAddH20, relay, lcd_line2,
                          soilMoistureValue, soilMoisturePercent,
                          previousMillisSense>>]_vars

\* an execution too early for a sample, in the middle of a dry wait
C12_Witness ==
    /\ ~advanced
    /\ sinceSample > 0
    /\ sinceSample < intervalSense
    /\ dryTimeSum > 0

\* C17: an execution of loop() that takes a press but no sample changes the
\* threshold only: counters, relay, status line and sampling timestamp stay;
\* a press taken in the execution that samples is applied before the
\* comparison, which is made with the threshold as the press left it.
C17_PressFrame ==
    /\ [][(thresholdAddWater' # thresholdAddWater /\ ~advanced') =>
              UNCHANGED <<dryTimeSum, addWaterSum, timeAddH20, relay, lcd_line2,
                          previousMillisSense>>]_vars
    /\ [](advanced =>
              ((lastTick = "dry") <=> IsDry(soilMoisturePercent, thresholdAddWater)))

\* a press since the latest sample: the display compares with the new
\* threshold, the watering state is still that of the sample
C17_Witness ==
    /\ ~advanced
    /\ lastTick = "wet"
    /\ IsDry(soilMoisturePercent, thresholdAddWater)
    /\ lcd_line2 = <<"Lea is Happy", 0>>
    /\ dryTimeSum > 0

\* C19: with a clock of ClockBits bits and the loop run more often than once
\* per ClockMod - intervalSense ms, also across a wrap of the clock a sample
\* is taken only when intervalSense ms have passed since the previous one, and
\* is taken by the first execution of loop() that finds them passed.
C19_WrapRobust ==
    /\ advanced => sinceSample >= intervalSense
    /\ ~advanced => sinceSample < intervalSense

\* a sample taken after the clock wrapped: the clock reads less than the time
\* since the previous sample
C19_Witness == advanced /\ clock < sinceSample /\ previousMillisSense = clock

\* C13: the percentage computed from a reading is 0 at AirValue and 100 at
\* WaterValue, no reading of the converter's range that is higher gives a
\* higher percentage (nor a lower one a lower percentage), and a reading
\* outside WaterValue..AirValue gives a percentage outside 0..100.
C13_Calibration ==
    lastTick # "none" =>
        /\ soilMoistureValue = AirValue => soilMoisturePercent = 0
        /\ soilMoistureValue = WaterValue => soilMoisturePercent = 100 * PercentScale
        /\ \A r \in AdcRange :
              /\ r >= soilMoistureValue => MoisturePercent(r) <= soilMoisturePercent
              /\ r <= soilMoistureValue => MoisturePercent(r) >= soilMoisturePercent
        /\ soilMoistureValue > AirValue => soilMoisturePercent < 0
        /\ soilMoistureValue < WaterValue => soilMoisturePercent > 100 * PercentScale

\* a reading above the dry calibration point, converted to less than 0 %
C13_Witness ==
    /\ lastTick = "dry"
    /\ soilMoistureValue = AirValue + 1
    /\ soilMoisturePercent = -100

====
